---- MODULE Spec2Model ----
(***************************************************************************)
(* Model of the Polly-API client scripts: fetch_polls / fetch_all_polls,   *)
(* vote_on_poll / login_and_vote, get_poll_results / display_poll_results  *)
(* and register_user.  One behaviour is one call of one function (op);     *)
(* every HTTP exchange is two steps, the request leaving and the response  *)
(* being handled, because the calls are blocking.                          *)
(*                                                                         *)
(* Abstractions: a JSON value is None, a list of poll ids or an opaque     *)
(* object; an exception is its class plus the context values its message   *)
(* names; vote_count / total_votes * 100 is kept as the exact fraction     *)
(* num/den (IEEE rounding of the float is not modelled); a 200 body that   *)
(* is not JSON raises requests.exceptions.JSONDecodeError, which is a      *)
(* RequestException (requests >= 2.27).                                    *)
(***************************************************************************)
EXTENDS Integers, Sequences, FiniteSets, TLC

VARIABLES
    op,             \* the function being called
    pc,             \* position inside it
    args,           \* the call's arguments
    server,         \* the collaborator: [mode, n] (n polls, ids 1..n)
    requests,       \* every HTTP request issued so far, in order
    answered,       \* how many of them have been answered
    response,       \* the last response received
    login_response, \* the response to the login request
    skip,           \* fetch_all_polls: skip
    all_polls,      \* fetch_all_polls: all_polls
    polls_page,     \* fetch_all_polls: polls_page
    pages,          \* the 200 pages received so far, in order (history)
    access_token,   \* login_and_vote: local access_token ("unbound" before assignment)
    outcome,        \* how the call ended
    total_votes,    \* display_poll_results: total_votes
    printed         \* display_poll_results: the option rows printed so far

vars == <<op, pc, args, server, requests, answered, response, login_response,
          skip, all_polls, polls_page, pages, access_token, outcome,
          total_votes, printed>>

-----------------------------------------------------------------------------
(* Bounds *)

MaxPolls == 25
MaxPageSize == 10
MaxArbPolls == 3
MaxArbPageSize == 2
MaxArbRequests == 3
MaxRows == 3
MaxVotes == 3

-----------------------------------------------------------------------------
(* Values *)

Min(a, b) == IF a < b THEN a ELSE b

JNone == [t |-> "None", list |-> <<>>, obj |-> ""]
JList(s) == [t |-> "list", list |-> s, obj |-> ""]
JObj(o) == [t |-> "obj", list |-> <<>>, obj |-> o]

\* Python truthiness of a JSON value: None and the empty list are falsy.
Falsy(v) == v.t = "None" \/ (v.t = "list" /\ v.list = <<>>)

Statuses == {200, 201, 204, 304, 400, 401, 404, 500}

Http(st, ok, body) == [kind |-> "http", status |-> st, json_ok |-> ok, body |-> body]
TransportFailure(k) == [kind |-> k, status |-> 0, json_ok |-> FALSE, body |-> JNone]
NoResponse == [kind |-> "none", status |-> 0, json_ok |-> FALSE, body |-> JNone]

TransportErrors == {TransportFailure("ConnectionError"), TransportFailure("Timeout")}

IsTransport(r) == r.kind \in {"ConnectionError", "Timeout"}

\* Every answer an endpoint can give whose 200 bodies are drawn from bodies.
Responses(bodies) ==
    TransportErrors
    \cup {Http(st, FALSE, JNone) : st \in Statuses}
    \cup {Http(200, TRUE, b) : b \in bodies}

Request(endpoint, s, l, pid, oid, user, tok) ==
    [endpoint |-> endpoint, skip |-> s, limit |-> l, poll_id |-> pid,
     option_id |-> oid, username |-> user, token |-> tok]

Pending == [kind |-> "pending", exc |-> "", msg |-> "", ctx |-> {}, value |-> JNone]
Return(v) == [kind |-> "return", exc |-> "", msg |-> "", ctx |-> {}, value |-> v]
Raise(e, m, c) == [kind |-> "raise", exc |-> e, msg |-> m, ctx |-> c, value |-> JNone]
\* get_poll_results prints m and returns None.
PrintAndReturnNone(m) == [kind |-> "return", exc |-> "", msg |-> m, ctx |-> {}, value |-> JNone]

\* response.raise_for_status(): HTTPError for 400 <= status < 600, else nothing.
RaisesForStatus(st) == st >= 400 /\ st < 600

-----------------------------------------------------------------------------
(* The listing endpoint *)

ServerPolls == [i \in 1..server.n |-> i]

\* A server that honours skip and limit: polls[s .. s+l-1].
HonestPage(s, l) == SubSeq(ServerPolls, s + 1, Min(s + l, server.n))

\* A server that need not honour limit or be consistent: any slice of at most l+1 polls.
ArbitraryPages(l) ==
    {SubSeq(ServerPolls, a, Min(a + k - 1, server.n)) :
        a \in 1..(server.n + 1), k \in 0..(l + 1)}

PollsResponses(s, l) ==
    IF server.mode = "honest"
    THEN {Http(200, TRUE, JList(HonestPage(s, l)))}
    ELSE Responses({JList(p) : p \in ArbitraryPages(l)})

RequestCap == IF server.mode = "honest" THEN MaxPolls + 2 ELSE MaxArbRequests

-----------------------------------------------------------------------------
(* fetch_polls and fetch_all_polls (src/fetch_polls.py) *)

\* fetch_polls, from the response of requests.get to how the call ends.
fetch_polls(resp) ==
    IF IsTransport(resp) THEN Raise("RequestException", "Failed to fetch polls", {})
    ELSE IF resp.status = 200
         THEN IF resp.json_ok THEN Return(resp.body)
              ELSE Raise("RequestException", "Failed to fetch polls", {})
    ELSE IF RaisesForStatus(resp.status)
         THEN Raise("RequestException", "Failed to fetch polls", {})
    ELSE Return(JNone)   \* raise_for_status() raised nothing: the function falls off its end

\* "if not polls_page: break"
EmptyPage(page) == Falsy(page)

ShortPageLessOrEqual(page, page_size) == Len(page.list) <= page_size
\* "if len(polls_page) < page_size: break"
ShortPage(page, page_size) == Len(page.list) < page_size

ExtendDeduplicated(acc, page) ==
    acc \o SelectSeq(page.list, LAMBDA x : ~(\E i \in 1..Len(acc) : acc[i] = x))
\* "all_polls.extend(polls_page)"
Extend(acc, page) == acc \o page.list

NextSkipByOne(s, page_size, page) == s + 1
\* "skip += page_size"
NextSkip(s, page_size, page) == s + page_size

FetchPollsSend ==
    /\ pc = "call_fetch_polls"
    /\ Len(requests) < RequestCap
    /\ requests' = Append(requests, Request("polls", skip, args.page_size, 0, 0, "", ""))
    /\ pc' = "await_polls"
    /\ UNCHANGED <<op, args, server, answered, response, login_response, skip,
                   all_polls, polls_page, pages, access_token, outcome,
                   total_votes, printed>>

FetchPollsReceive ==
    /\ pc = "await_polls"
    /\ \E resp \in PollsResponses(skip, args.page_size) :
        LET r == fetch_polls(resp) IN
        /\ response' = resp
        /\ answered' = answered + 1
        /\ pages' = IF resp.kind = "http" /\ resp.status = 200 /\ resp.json_ok
                    THEN Append(pages, resp.body.list) ELSE pages
        /\ IF op = "fetch_polls" \/ r.kind = "raise"
           THEN /\ outcome' = r
                /\ pc' = "done"
                /\ UNCHANGED polls_page
           ELSE /\ polls_page' = r.value
                /\ pc' = "loop_body"
                /\ UNCHANGED outcome
    /\ UNCHANGED <<op, args, server, requests, login_response, skip, all_polls,
                   access_token, total_votes, printed>>

\* One pass of the body of "while True" after fetch_polls returned.
FetchAllPollsLoopBody ==
    /\ pc = "loop_body"
    /\ IF EmptyPage(polls_page)
       THEN /\ outcome' = Return(JList(all_polls))
            /\ pc' = "done"
            /\ UNCHANGED <<all_polls, skip>>
       ELSE /\ all_polls' = Extend(all_polls, polls_page)
            /\ IF ShortPage(polls_page, args.page_size)
               THEN /\ outcome' = Return(JList(all_polls'))
                    /\ pc' = "done"
                    /\ UNCHANGED skip
               ELSE /\ skip' = NextSkip(skip, args.page_size, polls_page)
                    /\ pc' = "call_fetch_polls"
                    /\ UNCHANGED outcome
    /\ UNCHANGED <<op, args, server, requests, answered, response, login_response,
                   polls_page, pages, access_token, total_votes, printed>>

-----------------------------------------------------------------------------
(* vote_on_poll and login_and_vote (src/vote_on_poll.py) *)

Tokens == {"tokA", "tokB"}

\* Login answers 200 with a token payload, or with a JSON object that has no access_token.
LoginResponses == Responses({JObj(t) : t \in Tokens \cup {"no access_token"}})
VoteResponses == Responses({JObj("vote")})

vote_on_poll(resp, poll_id, option_id) ==
    IF IsTransport(resp) THEN Raise("RequestException", "Failed to cast vote", {})
    ELSE IF resp.status = 200
         THEN IF resp.json_ok THEN Return(resp.body)
              ELSE Raise("RequestException", "Failed to cast vote", {})
    ELSE IF resp.status = 401
         THEN Raise("ValueError", "Unauthorized", {})
    ELSE IF resp.status = 404
         THEN Raise("ValueError", "not found",
                    {<<"poll_id", poll_id>>, <<"option_id", option_id>>})
    ELSE IF RaisesForStatus(resp.status)
         THEN Raise("RequestException", "Failed to cast vote", {})
    ELSE Return(JNone)

\* What reaches the caller of login_and_vote from its call of vote_on_poll.
ThroughLoginAndVote(r) ==
    IF r.kind = "raise" /\ r.exc = "RequestException"
    THEN Raise("RequestException", "Failed to login and vote", {})
    ELSE r

Proceed(tok) == [kind |-> "proceed", exc |-> "", msg |-> "", ctx |-> {}, token |-> tok]
Abort(e, m) == [kind |-> "raise", exc |-> e, msg |-> m, ctx |-> {}, token |-> "unbound"]

login_status_lenient(resp) ==
    IF IsTransport(resp) THEN Abort("RequestException", "Failed to login and vote")
    ELSE IF resp.status = 200 /\ resp.json_ok /\ resp.body.obj \in Tokens
         THEN Proceed(resp.body.obj)
    ELSE Proceed("")
\* The status branch of login_and_vote: the value of local access_token after it, or the raise.
login_status(resp) ==
    IF IsTransport(resp) THEN Abort("RequestException", "Failed to login and vote")
    ELSE IF resp.status = 200
         THEN IF ~resp.json_ok THEN Abort("RequestException", "Failed to login and vote")
              ELSE IF resp.body.obj \in Tokens THEN Proceed(resp.body.obj)
              ELSE Abort("KeyError", "access_token")
    ELSE IF resp.status = 400
         THEN Abort("ValueError", "Login failed")
    ELSE IF RaisesForStatus(resp.status)
         THEN Abort("RequestException", "Failed to login and vote")
    ELSE Proceed("unbound")   \* no branch assigned access_token

LoginSend ==
    /\ pc = "call_login"
    /\ requests' = Append(requests, Request("login", 0, 0, 0, 0, args.username, ""))
    /\ pc' = "await_login"
    /\ UNCHANGED <<op, args, server, answered, response, login_response, skip,
                   all_polls, polls_page, pages, access_token, outcome,
                   total_votes, printed>>

LoginReceive ==
    /\ pc = "await_login"
    /\ \E resp \in LoginResponses :
        LET r == login_status(resp) IN
        /\ response' = resp
        /\ login_response' = resp
        /\ answered' = answered + 1
        /\ IF r.kind = "raise"
           THEN /\ outcome' = Raise(r.exc, r.msg, r.ctx)
                /\ pc' = "done"
                /\ UNCHANGED access_token
           ELSE IF r.token = "unbound"
           THEN \* reading access_token for the call of vote_on_poll
                /\ outcome' = Raise("UnboundLocalError", "access_token", {})
                /\ pc' = "done"
                /\ UNCHANGED access_token
           ELSE /\ access_token' = r.token
                /\ pc' = "call_vote"
                /\ UNCHANGED outcome
    /\ UNCHANGED <<op, args, server, requests, skip, all_polls, polls_page, pages,
                   total_votes, printed>>

VoteSend ==
    /\ pc = "call_vote"
    /\ requests' = Append(requests,
           Request("vote", 0, 0, args.poll_id, args.option_id, "",
                   IF op = "vote_on_poll" THEN args.access_token ELSE access_token))
    /\ pc' = "await_vote"
    /\ UNCHANGED <<op, args, server, answered, response, login_response, skip,
                   all_polls, polls_page, pages, access_token, outcome,
                   total_votes, printed>>

VoteReceive ==
    /\ pc = "await_vote"
    /\ \E resp \in VoteResponses :
        LET r == vote_on_poll(resp, args.poll_id, args.option_id) IN
        /\ response' = resp
        /\ answered' = answered + 1
        /\ outcome' = IF op = "login_and_vote" THEN ThroughLoginAndVote(r) ELSE r
    /\ pc' = "done"
    /\ UNCHANGED <<op, args, server, requests, login_response, skip, all_polls,
                   polls_page, pages, access_token, total_votes, printed>>

-----------------------------------------------------------------------------
(* register_user (src/register_user.py) *)

RegisterResponses == Responses({JObj("user")})

register_user(resp, username) ==
    IF IsTransport(resp) THEN Raise("RequestException", "Failed to register user", {})
    ELSE IF resp.status = 200
         THEN IF resp.json_ok THEN Return(resp.body)
              ELSE Raise("RequestException", "Failed to register user", {})
    ELSE IF resp.status = 400
         THEN Raise("ValueError", "already registered", {<<"username", username>>})
    ELSE IF RaisesForStatus(resp.status)
         THEN Raise("RequestException", "Failed to register user", {})
    ELSE Return(JNone)

RegisterSend ==
    /\ pc = "call_register"
    /\ requests' = Append(requests, Request("register", 0, 0, 0, 0, args.username, ""))
    /\ pc' = "await_register"
    /\ UNCHANGED <<op, args, server, answered, response, login_response, skip,
                   all_polls, polls_page, pages, access_token, outcome,
                   total_votes, printed>>

RegisterReceive ==
    /\ pc = "await_register"
    /\ \E resp \in RegisterResponses :
        /\ response' = resp
        /\ answered' = answered + 1
        /\ outcome' = register_user(resp, args.username)
    /\ pc' = "done"
    /\ UNCHANGED <<op, args, server, requests, login_response, skip, all_polls,
                   polls_page, pages, access_token, total_votes, printed>>

-----------------------------------------------------------------------------
(* get_poll_results and display_poll_results (src/get_poll_results.py) *)

ResultsResponses == Responses({JObj("results")})

get_poll_results(resp, poll_id) ==
    IF resp.kind = "ConnectionError" THEN PrintAndReturnNone("Could not connect")
    ELSE IF resp.kind = "Timeout" THEN PrintAndReturnNone("Request timed out")
    ELSE IF resp.status = 200
         THEN IF resp.json_ok THEN Return(resp.body)
              ELSE PrintAndReturnNone("Request failed")
    ELSE IF resp.status = 404
         THEN PrintAndReturnNone("Poll not found")
    ELSE PrintAndReturnNone("Unexpected status code")

ResultsSend ==
    /\ pc = "call_results"
    /\ requests' = Append(requests, Request("results", 0, 0, args.poll_id, 0, "", ""))
    /\ pc' = "await_results"
    /\ UNCHANGED <<op, args, server, answered, response, login_response, skip,
                   all_polls, polls_page, pages, access_token, outcome,
                   total_votes, printed>>

ResultsReceive ==
    /\ pc = "await_results"
    /\ \E resp \in ResultsResponses :
        /\ response' = resp
        /\ answered' = answered + 1
        /\ outcome' = get_poll_results(resp, args.poll_id)
    /\ pc' = "done"
    /\ UNCHANGED <<op, args, server, requests, login_response, skip, all_polls,
                   polls_page, pages, access_token, total_votes, printed>>

RECURSIVE SumVotes(_)
\* sum(option['vote_count'] for option in results['results'])
SumVotes(rows) ==
    IF rows = <<>> THEN 0 ELSE rows[1].vote_count + SumVotes(Tail(rows))

PercentageUnguarded(vote_count, total) == [num |-> vote_count * 100, den |-> total]
\* (vote_count / total_votes * 100) if total_votes > 0 else 0, as the fraction num/den;
\* den is what the division divides by (1 when no division is made).
Percentage(vote_count, total) ==
    IF total > 0 THEN [num |-> vote_count * 100, den |-> total]
    ELSE [num |-> 0, den |-> 1]

\* "if not results: return", then the sum of the vote counts.
DisplayStart ==
    /\ pc = "display"
    /\ IF args.results.none
       THEN /\ outcome' = PrintAndReturnNone("No results to display")
            /\ pc' = "done"
            /\ UNCHANGED total_votes
       ELSE /\ total_votes' = SumVotes(args.results.rows)
            /\ pc' = "display_rows"
            /\ UNCHANGED outcome
    /\ UNCHANGED <<op, args, server, requests, answered, response, login_response,
                   skip, all_polls, polls_page, pages, access_token, printed>>

\* One pass of "for option in results['results']".
DisplayRow ==
    /\ pc = "display_rows"
    /\ Len(printed) < Len(args.results.rows)
    /\ LET option == args.results.rows[Len(printed) + 1] IN
       printed' = Append(printed,
           [option_id |-> option.option_id, vote_count |-> option.vote_count,
            percentage |-> Percentage(option.vote_count, total_votes)])
    /\ UNCHANGED <<op, pc, args, server, requests, answered, response,
                   login_response, skip, all_polls, polls_page, pages,
                   access_token, outcome, total_votes>>

\* The loop is exhausted: the total is printed and the function returns None.
DisplayEnd ==
    /\ pc = "display_rows"
    /\ Len(printed) = Len(args.results.rows)
    /\ outcome' = PrintAndReturnNone("Total votes")
    /\ pc' = "done"
    /\ UNCHANGED <<op, args, server, requests, answered, response, login_response,
                   skip, all_polls, polls_page, pages, access_token, total_votes,
                   printed>>

-----------------------------------------------------------------------------
(* Initial states: one call, with its arguments drawn from small sets *)

Usernames == {"alice", "bob"}
Ids == {1, 2}

NoResults == [none |-> TRUE, rows |-> <<>>]
Rows(counts) == [i \in 1..Len(counts) |-> [option_id |-> i, vote_count |-> counts[i]]]
CountSeqs == UNION {[1..k -> 0..MaxVotes] : k \in 0..MaxRows}
ResultsInputs == {NoResults} \cup {[none |-> FALSE, rows |-> Rows(c)] : c \in CountSeqs}

Args(ps, pid, oid, user, tok, res) ==
    [page_size |-> ps, poll_id |-> pid, option_id |-> oid, username |-> user,
     access_token |-> tok, results |-> res]

Servers ==
    {[mode |-> "honest", n |-> n] : n \in 0..MaxPolls}
    \cup {[mode |-> "arbitrary", n |-> n] : n \in 0..MaxArbPolls}

PageSizes(srv) == IF srv.mode = "honest" THEN 1..MaxPageSize ELSE 1..MaxArbPageSize

DefaultServer == [mode |-> "arbitrary", n |-> 0]

Start(o, p, a, srv, s) ==
    /\ op = o
    /\ pc = p
    /\ args = a
    /\ server = srv
    /\ skip = s
    /\ requests = <<>>
    /\ answered = 0
    /\ response = NoResponse
    /\ login_response = NoResponse
    /\ all_polls = <<>>
    /\ polls_page = JNone
    /\ pages = <<>>
    /\ access_token = "unbound"
    /\ outcome = Pending
    /\ total_votes = 0
    /\ printed = <<>>

Init ==
    \/ \E srv \in Servers : \E ps \in PageSizes(srv) :
         Start("fetch_all_polls", "call_fetch_polls",
               Args(ps, 1, 1, "alice", "tokA", NoResults), srv, 0)
    \/ \E n \in 0..MaxArbPolls, ps \in 1..MaxArbPageSize, s \in {0, 1} :
         Start("fetch_polls", "call_fetch_polls",
               Args(ps, 1, 1, "alice", "tokA", NoResults),
               [mode |-> "arbitrary", n |-> n], s)
    \/ \E pid \in Ids, oid \in Ids, tok \in Tokens :
         Start("vote_on_poll", "call_vote",
               Args(1, pid, oid, "alice", tok, NoResults), DefaultServer, 0)
    \/ \E pid \in Ids, oid \in Ids, user \in Usernames :
         Start("login_and_vote", "call_login",
               Args(1, pid, oid, user, "tokA", NoResults), DefaultServer, 0)
    \/ \E user \in Usernames :
         Start("register_user", "call_register",
               Args(1, 1, 1, user, "tokA", NoResults), DefaultServer, 0)
    \/ \E pid \in Ids :
         Start("get_poll_results", "call_results",
               Args(1, pid, 1, "alice", "tokA", NoResults), DefaultServer, 0)
    \/ \E res \in ResultsInputs :
         Start("display_poll_results", "display",
               Args(1, 1, 1, "alice", "tokA", res), DefaultServer, 0)

Next ==
    \/ FetchPollsSend
    \/ FetchPollsReceive
    \/ FetchAllPollsLoopBody
    \/ LoginSend
    \/ LoginReceive
    \/ VoteSend
    \/ VoteReceive
    \/ RegisterSend
    \/ RegisterReceive
    \/ ResultsSend
    \/ ResultsReceive
    \/ DisplayStart
    \/ DisplayRow
    \/ DisplayEnd

Spec == Init /\ [][Next]_vars

\* The calls are synchronous: a call that can take its next step takes it.
FairSpec == Spec /\ WF_vars(Next)

-----------------------------------------------------------------------------
(* Properties *)

RECURSIVE Concat(_)
Concat(ps) == IF ps = <<>> THEN <<>> ELSE Head(ps) \o Concat(Tail(ps))

CeilDiv(a, b) == (a + b - 1) \div b

IsHttp(r) == r.kind = "http"
Finished == pc = "done"
VoteRequests == {i \in 1..Len(requests) : requests[i].endpoint = "vote"}
OneAtATime == answered <= Len(requests) /\ Len(requests) <= answered + 1

HonestFetchAll == op = "fetch_all_polls" /\ server.mode = "honest"

\* C1: against a listing endpoint that honours skip and limit and always answers 200,
\* fetch_all_polls never raises, always finishes, and returns exactly the server's
\* polls, each once, in the server's order.
C1_ReturnsAllPollsInOrder ==
    /\ [](HonestFetchAll =>
            /\ outcome.kind # "raise"
            /\ Finished => outcome = Return(JList(ServerPolls)))
    /\ (HonestFetchAll ~> Finished)

C1_Witness ==
    /\ HonestFetchAll /\ Finished
    /\ server.n = 25 /\ args.page_size = 10
    /\ outcome.kind = "return" /\ Len(outcome.value.list) = 25

\* C2: against such an endpoint the page requests go out one at a time at offsets
\* 0, p, 2p, ... (strictly increasing, none twice), each asking for p polls; the call
\* makes ceil(n/p) requests when p does not divide n and n/p + 1 when it does; 25 polls
\* with p = 10 give pages of 10, 10, 5 and 0 polls give one request and an empty result.
C2_RequestSchedule ==
    HonestFetchAll =>
        LET p == args.page_size
            n == server.n
        IN  /\ OneAtATime
            /\ \A i \in 1..Len(requests) :
                 /\ requests[i].endpoint = "polls"
                 /\ requests[i].skip = (i - 1) * p
                 /\ requests[i].limit = p
            /\ \A i, j \in 1..Len(requests) :
                 i < j => requests[i].skip < requests[j].skip
            /\ Finished =>
                 /\ Len(requests) = IF n % p = 0 THEN (n \div p) + 1 ELSE CeilDiv(n, p)
                 /\ answered = Len(requests)
                 /\ (n = 25 /\ p = 10) =>
                      [i \in 1..Len(pages) |-> Len(pages[i])] = <<10, 10, 5>>
                 /\ n = 0 => Len(requests) = 1 /\ outcome = Return(JList(<<>>))

C2_Witness ==
    /\ HonestFetchAll /\ Finished
    /\ server.n = 20 /\ args.page_size = 10
    /\ Len(requests) = 3 /\ requests[3].skip = 20

\* C3: a failed page request (a transport failure or a status that is not 2xx) ends
\* fetch_all_polls with an exception: no list is returned and no request follows.
C3_FailureAborts ==
    (/\ op = "fetch_all_polls"
     /\ answered >= 1
     /\ (IsTransport(response) \/ ~(response.status \in 200..299)))
    => /\ outcome.kind # "return"
       /\ Len(requests) = answered

\* C4: login_and_vote issues the login request first and has it answered before
\* anything else; a vote request goes out only after a login answer of status 200, at
\* most once, and with that answer's access_token; every login failure (400 gives the
\* invalid-credentials ValueError, any other status but 200, a transport error) ends
\* the call with an exception and without a vote request.
C4_LoginThenVote ==
    op = "login_and_vote" =>
        /\ OneAtATime
        /\ Len(requests) >= 1 => requests[1].endpoint = "login"
        /\ Cardinality(VoteRequests) <= 1
        /\ \A i \in VoteRequests :
             /\ i = 2
             /\ answered >= 1
             /\ IsHttp(login_response) /\ login_response.status = 200
             /\ requests[i].token = login_response.body.obj
             /\ requests[i].token \in Tokens
        /\ (login_response # NoResponse
              /\ (IsTransport(login_response) \/ login_response.status # 200)) =>
             /\ Finished
             /\ outcome.kind = "raise"
             /\ VoteRequests = {}
             /\ login_response.status = 400 =>
                  outcome.exc = "ValueError" /\ outcome.msg = "Login failed"

C4_Witness ==
    /\ op = "login_and_vote" /\ Finished
    /\ login_response.status = 200
    /\ VoteRequests = {2}
    /\ requests[2].token = "tokB"
    /\ outcome.kind = "return"

\* C5: whatever pages the server answers, fetch_all_polls asks at offsets that advance
\* by exactly page_size, issues no request after the first page that is empty or
\* shorter than page_size, and returns the pages received up to and including that
\* page, concatenated in the order received with nothing reordered, dropped or
\* deduplicated.
C5_ConcatenationOfPages ==
    op = "fetch_all_polls" =>
        LET p == args.page_size
            OnlyPages == Len(pages) = answered
        IN  /\ \A i \in 1..Len(requests) :
                 requests[i].skip = (i - 1) * p /\ requests[i].limit = p
            /\ OnlyPages =>
                 /\ \A i \in 1..Len(pages) :
                      Len(pages[i]) < p => i = Len(pages) /\ Len(requests) = i
                 /\ pc = "call_fetch_polls" => all_polls = Concat(pages)
                 /\ Finished =>
                      /\ outcome = Return(JList(Concat(pages)))
                      /\ Len(pages) >= 1
                      /\ Len(pages[Len(pages)]) < p

C5_Witness ==
    /\ op = "fetch_all_polls" /\ server.mode = "arbitrary" /\ Finished
    /\ args.page_size = 2
    /\ pages = << <<1, 2, 3>>, <<2, 3>>, <<3>> >>
    /\ outcome = Return(JList(<<1, 2, 3, 2, 3, 3>>))

\* C6: fetch_polls returns the parsed array for status 200 and raises the request
\* error for every other status, so no other status makes it return.
C6_FetchPollsStatusMapping ==
    (op = "fetch_polls" /\ Finished /\ IsHttp(response)) =>
        IF response.status = 200
        THEN response.json_ok => outcome = Return(response.body)
        ELSE outcome.kind = "raise" /\ outcome.exc = "RequestException"

\* C7: vote_on_poll returns the parsed vote for 200, raises Unauthorized for 401,
\* raises not-found naming poll_id and option_id for 404, and raises the request error
\* for every other status; the four are distinct and no other status makes it return.
C7_VoteStatusMapping ==
    (op = "vote_on_poll" /\ Finished /\ IsHttp(response)) =>
        CASE response.status = 200 ->
               response.json_ok => outcome = Return(response.body)
          [] response.status = 401 ->
               outcome.kind = "raise" /\ outcome.exc = "ValueError"
               /\ outcome.msg = "Unauthorized"
          [] response.status = 404 ->
               outcome.kind = "raise" /\ outcome.exc = "ValueError"
               /\ outcome.msg = "not found"
               /\ outcome.ctx = {<<"poll_id", args.poll_id>>,
                                 <<"option_id", args.option_id>>}
          [] OTHER ->
               outcome.kind = "raise" /\ outcome.exc = "RequestException"

\* C8: get_poll_results returns the parsed results for 200, fails with not-found for
\* 404, fails with the request error for every other status and surfaces a transport
\* failure as an error, so the caller can tell the failure kinds apart.
C8_ResultsStatusMapping ==
    (op = "get_poll_results" /\ Finished) =>
        IF IsHttp(response) /\ response.status = 200
        THEN response.json_ok => outcome = Return(response.body)
        ELSE outcome.kind = "raise"

\* C9: register_user issues exactly one POST; it returns the parsed user for 200,
\* raises already-registered naming the username for 400, and raises the request
\* error for every other status, so no other status makes it return.
C9_RegisterStatusMapping ==
    op = "register_user" =>
        /\ Len(requests) <= 1
        /\ (Finished /\ IsHttp(response)) =>
             /\ Len(requests) = 1
             /\ CASE response.status = 200 ->
                      response.json_ok => outcome = Return(response.body)
                  [] response.status = 400 ->
                      outcome.kind = "raise" /\ outcome.exc = "ValueError"
                      /\ outcome.ctx = {<<"username", args.username>>}
                  [] OTHER ->
                      outcome.kind = "raise" /\ outcome.exc = "RequestException"

\* The number of votes in rows, counted vote by vote.
VoteTally(rows) ==
    Cardinality({<<i, k>> \in (1..Len(rows)) \X (1..MaxVotes + 1) :
                    k <= rows[i].vote_count})

\* C10: display_poll_results computes total as the sum of the rows' vote counts and
\* for each row percentage = vote_count / total * 100 when total > 0 and 0 when
\* total = 0, never dividing by zero (also for no rows); equal vote counts get equal
\* percentages, the rows keep their order and the input is not changed; counts 3 and 1
\* give total 4 and percentages 75 and 25.
C10_Aggregation ==
    /\ [][args' = args]_vars
    /\ [](op = "display_poll_results" /\ ~args.results.none =>
            LET rows == args.results.rows IN
            /\ pc # "display" => total_votes = VoteTally(rows)
            /\ Len(printed) <= Len(rows)
            /\ Finished => Len(printed) = Len(rows)
            /\ \A i \in 1..Len(printed) :
                 LET pct == printed[i].percentage IN
                 /\ printed[i].option_id = rows[i].option_id
                 /\ printed[i].vote_count = rows[i].vote_count
                 /\ pct.den # 0
                 /\ total_votes > 0 =>
                      pct.num * total_votes = rows[i].vote_count * 100 * pct.den
                 /\ total_votes = 0 => pct.num = 0 /\ pct.den = 1
            /\ \A i, j \in 1..Len(printed) :
                 rows[i].vote_count = rows[j].vote_count =>
                   printed[i].percentage.num * printed[j].percentage.den
                     = printed[j].percentage.num * printed[i].percentage.den
            /\ (Finished /\ [i \in 1..Len(rows) |-> rows[i].vote_count] = <<3, 1>>) =>
                 /\ total_votes = 4
                 /\ printed[1].percentage.num = 75 * printed[1].percentage.den
                 /\ printed[2].percentage.num = 25 * printed[2].percentage.den)

C10_Witness ==
    /\ op = "display_poll_results" /\ Finished
    /\ [i \in 1..Len(printed) |-> printed[i].vote_count] = <<3, 1>>
    /\ total_votes = 4
    /\ printed[1].percentage = [num |-> 300, den |-> 4]

====
